---- MODULE Spec2Model ----
(***************************************************************************)
(* A model of the flashcard quiz application (src/quiz/quiz.py):           *)
(*   - load_questions, the loader of the question store;                   *)
(*   - QuizEngine, the quiz session engine, driven by any caller (Spec,    *)
(*     and ReadSpec with its read-only methods);                           *)
(*   - DB, the attempt log, driven by any caller (DBSpec);                 *)
(*   - FlashcardApp, the Tk shell that drives the engine and the log       *)
(*     (AppSpec, and AppFairSpec with fair timers).                        *)
(* Python lists are sequences; list indices are kept 0-based as in the     *)
(* source and translated by PyGet. Optional[str] is a sequence of length   *)
(* at most 1: None is <<>> and the string s is <<s>>.                      *)
(***************************************************************************)
EXTENDS Integers, Sequences, FiniteSets, TLC

VARIABLES
    raw,         \* the question source handed to load_questions
    loaded,      \* the outcome of load_questions(raw)
    engine,      \* the QuizEngine object: its fields
    now,         \* time.time(), the wall clock, in clock ticks
    last,        \* the last engine call: operation, arguments, outcome
    clean,       \* a start has succeeded; no start has failed, no reset come since
    submits,     \* while clean: the submit calls made since that start
    app,         \* the FlashcardApp object: the screen shown, its timer fields
    after_queue, \* the ids of the callbacks pending in the Tk event loop
    db,          \* the DB object: its connection and the rows of attempts
    exc,         \* the exception the last handler ended with, "" if none
    dbcall,      \* the last DB call: operation, arguments, outcome
    shown        \* the history of the question on display and of its timers

vars ==
    <<raw, loaded, engine, now, last, clean, submits, app, after_queue, db, exc,
      dbcall, shown>>

----------------------------------------------------------------------------
(* Bounds of the model *)

\* requested counts range from -CountSlack to the largest pool + CountSlack
CountSlack == 1
\* the wall clock takes the values 0..MaxClock
MaxClock == 1
\* a question source holds at most MaxItems items per category
MaxItems == 2
\* at most MaxSubmits submit calls are followed after a successful start
MaxSubmits == 4
\* sessions are started while the log holds fewer than MaxAttempts rows
MaxAttempts == 2
\* the wall clock is read in steps of 1/TicksPerSecond seconds
TicksPerSecond == 2

----------------------------------------------------------------------------
(* Python helpers *)

None == <<>>
Some(s) == <<s>>

Min(a, b) == IF a <= b THEN a ELSE b
Max(a, b) == IF a >= b THEN a ELSE b

\* list[i] raises IndexError unless -len <= i < len
PyIndexOK(list, i) == (0 - Len(list)) <= i /\ i < Len(list)
\* list[i], negative indices counting from the end
PyGet(list, i) == IF i >= 0 THEN list[i + 1] ELSE list[Len(list) + i + 1]
\* list[:n]; a negative n counts from the end
PyPrefix(list, n) ==
    IF n >= 0 THEN SubSeq(list, 1, Min(n, Len(list)))
    ELSE SubSeq(list, 1, Max(0, Len(list) + n))

Range(list) == {list[i] : i \in 1..Len(list)}
NoDuplicates(list) == \A i, j \in 1..Len(list) : list[i] = list[j] => i = j

\* every ordering rng.shuffle can leave list(range(n)) in
Shuffles(n) ==
    {p \in [1..n -> 0..(n - 1)] : \A i, j \in 1..n : p[i] = p[j] => i = j}

----------------------------------------------------------------------------
(* Data model: Question, and the question source *)

Question(c, text, opts, ans, diff) ==
    [category |-> c, question |-> text, options |-> opts, answer |-> ans,
     difficulty |-> diff]

\* the question file: absent, or a mapping from categories to item lists
NoFile == [found |-> FALSE, mapping |-> <<>>]
File(m) == [found |-> TRUE, mapping |-> m]

\* q.get("difficulty", "Easy")
GetDifficulty(q) == IF "difficulty" \in DOMAIN q THEN q.difficulty ELSE "Easy"

RequiredFields == {"question", "options", "answer"}

\* one category's items, converted in order; ok is FALSE when q["question"],
\* q["options"] or q["answer"] raises KeyError
RECURSIVE LoadItems(_, _, _)
LoadItems(cat, items, i) ==
    IF i > Len(items) THEN [ok |-> TRUE, out |-> <<>>]
    ELSE IF ~(RequiredFields \subseteq DOMAIN items[i])
         THEN [ok |-> FALSE, out |-> <<>>]
         ELSE LET rest == LoadItems(cat, items, i + 1)
                  q == Question(cat, items[i].question, items[i].options,
                                items[i].answer, GetDifficulty(items[i]))
              IN IF rest.ok THEN [ok |-> TRUE, out |-> <<q>> \o rest.out]
                 ELSE rest

RECURSIVE LoadCategories(_, _)
LoadCategories(src, k) ==
    IF k > Len(src) THEN [ok |-> TRUE, out |-> <<>>]
    ELSE LET here == LoadItems(src[k].category, src[k].items, 1)
             rest == LoadCategories(src, k + 1)
         IN IF ~here.ok THEN here
            ELSE IF ~rest.ok THEN rest
            ELSE [ok |-> TRUE, out |-> here.out \o rest.out]

\* load_questions: the list of Questions, or the exception raised
load_questions(src) ==
    IF ~src.found THEN [status |-> "FileNotFoundError", out |-> <<>>]
    ELSE LET r == LoadCategories(src.mapping, 1)
         IN IF r.ok THEN [status |-> "ok", out |-> r.out]
            ELSE [status |-> "KeyError", out |-> <<>>]

----------------------------------------------------------------------------
(* QuizEngine *)

\* reset_state forgetting to clear the score
reset_state_keeps_score(e) ==
    [questions_all |-> e.questions_all, pool |-> <<>>, order |-> <<>>,
     index |-> 0, score |-> IF "score" \in DOMAIN e THEN e.score ELSE 0,
     started_at |-> 0, category |-> "Any", difficulty |-> "Any"]

\* reset_state: the session fields of an idle engine; questions_all is kept
reset_state(e) ==
    [questions_all |-> e.questions_all, pool |-> <<>>, order |-> <<>>,
     index |-> 0, score |-> 0, started_at |-> 0,
     category |-> "Any", difficulty |-> "Any"]

\* QuizEngine.__init__
QuizEngine(questions) == reset_state([questions_all |-> questions])

\* the questions of qs that pass both filters, in the order of qs
RECURSIVE FilterPool(_, _, _, _)
FilterPool(qs, c, d, i) ==
    IF i > Len(qs) THEN <<>>
    ELSE (IF (c = "Any" \/ qs[i].category = c) /\ (d = "Any" \/ qs[i].difficulty = d)
          THEN <<qs[i]>> ELSE <<>>) \o FilterPool(qs, c, d, i + 1)

\* the clamp without its lower limit
ClampCount_no_floor(n, poolSize) == Min(n, poolSize)

\* count = min(max(1, int(count)), len(self.pool))
ClampCount(n, poolSize) == Min(Max(1, n), poolSize)

\* start leaving index and score as they were
start_keeps_progress(e, c, d, n, perm, t) ==
    LET newPool == FilterPool(e.questions_all, c, d, 1)
        filtered == [e EXCEPT !.category = c, !.difficulty = d, !.pool = newPool]
    IN IF newPool = <<>>
       THEN [e |-> filtered, raised |-> "ValueError"]
       ELSE [e |-> [filtered EXCEPT
                       !.order = PyPrefix(perm, ClampCount(n, Len(newPool))),
                       !.started_at = t],
             raised |-> ""]

\* start(category, difficulty, count) at wall-clock time t, with rng.shuffle
\* leaving the indices in the order perm
start(e, c, d, n, perm, t) ==
    LET newPool == FilterPool(e.questions_all, c, d, 1)
        filtered == [e EXCEPT !.category = c, !.difficulty = d, !.pool = newPool]
    IN IF newPool = <<>>
       THEN [e |-> filtered, raised |-> "ValueError"]
       ELSE [e |-> [filtered EXCEPT
                       !.order = PyPrefix(perm, ClampCount(n, Len(newPool))),
                       !.index = 0, !.score = 0, !.started_at = t],
             raised |-> ""]

\* the total property
total(e) == Len(e.order)

\* whether current() raises IndexError
currentRaises(e) ==
    \/ ~PyIndexOK(e.order, e.index)
    \/ ~PyIndexOK(e.pool, PyGet(e.order, e.index))

current(e) == PyGet(e.pool, PyGet(e.order, e.index))

\* is_finished off by one
is_finished_strict(e) == e.index > total(e)

is_finished(e) == e.index >= total(e)

\* submit advancing only past a question answered correctly
submit_stays_when_wrong(e, selected) ==
    IF currentRaises(e)
    THEN [e |-> e, raised |-> "IndexError", ret |-> FALSE]
    ELSE LET correct == (selected = Some(current(e).answer))
         IN [e |-> [e EXCEPT !.score = IF correct THEN e.score + 1 ELSE e.score,
                             !.index = IF correct THEN e.index + 1 ELSE e.index],
             raised |-> "", ret |-> correct]

\* submit returning False, without raising, when there is no current question
submit_quiet_at_end(e, selected) ==
    IF currentRaises(e)
    THEN [e |-> e, raised |-> "", ret |-> FALSE]
    ELSE LET correct == (selected = Some(current(e).answer))
         IN [e |-> [e EXCEPT !.score = IF correct THEN e.score + 1 ELSE e.score,
                             !.index = e.index + 1],
             raised |-> "", ret |-> correct]

\* submit advancing also when there is no current question
submit_unguarded(e, selected) ==
    LET correct == ~currentRaises(e) /\ selected = Some(current(e).answer)
    IN [e |-> [e EXCEPT !.score = IF correct THEN e.score + 1 ELSE e.score,
                        !.index = e.index + 1],
        raised |-> "", ret |-> correct]

\* submit(selected): selected is None or Some(string)
submit(e, selected) ==
    IF currentRaises(e)
    THEN [e |-> e, raised |-> "IndexError", ret |-> FALSE]
    ELSE LET correct == (selected = Some(current(e).answer))
         IN [e |-> [e EXCEPT !.score = IF correct THEN e.score + 1 ELSE e.score,
                             !.index = e.index + 1],
             raised |-> "", ret |-> correct]

\* duration_seconds() read at wall-clock time t
duration_seconds(e, t) == Max(0, t - e.started_at) \div TicksPerSecond

----------------------------------------------------------------------------
(* Question sources *)

Options == <<"a", "b">>

\* a well-formed item
GoodItem == [question |-> "q1", options |-> Options, answer |-> "a", difficulty |-> "Medium"]
\* an item without a difficulty
PlainItem == [question |-> "q2", options |-> Options, answer |-> "b"]
\* an item whose answer is none of its options
OddItem == [question |-> "q3", options |-> Options, answer |-> "c", difficulty |-> "Hard"]
\* items with a required field missing
NoAnswerItem == [question |-> "q4", options |-> Options]
NoQuestionItem == [options |-> Options, answer |-> "a"]

RawItems == {GoodItem, PlainItem, OddItem, NoAnswerItem, NoQuestionItem}
ItemLists == UNION {[1..k -> RawItems] : k \in 0..MaxItems}
SourceCategories == {"Science", "History"}

\* the sources load_questions is applied to: no file, or a mapping from
\* distinct categories to item lists, in the order of the file
RawSources ==
    {NoFile, File(<<>>)}
    \cup {File(<<[category |-> c, items |-> l]>>) : c \in SourceCategories, l \in ItemLists}
    \cup {File(<<[category |-> cs[1], items |-> l1], [category |-> cs[2], items |-> l2]>>) :
            cs \in {p \in SourceCategories \X SourceCategories : p[1] # p[2]},
            l1 \in ItemLists, l2 \in ItemLists}

\* the question banks the engine is exercised with
Bank1 ==
    File(<<[category |-> "Science",
            items |-> <<[question |-> "s1", options |-> Options, answer |-> "a", difficulty |-> "Easy"],
                        [question |-> "s2", options |-> Options, answer |-> "b", difficulty |-> "Hard"]>>],
           [category |-> "History",
            items |-> <<[question |-> "h1", options |-> Options, answer |-> "a"]>>]>>)
Bank2 ==
    File(<<[category |-> "Science", items |-> <<OddItem, PlainItem>>]>>)
Banks == {Bank1, Bank2}

\* the arguments the engine is called with
CategoryArgs == {"Any", "Science", "History"}
DifficultyArgs == {"Any", "Easy", "Hard"}
CountArgs == (0 - CountSlack)..(Len(load_questions(Bank1).out) + CountSlack)
Selections == {None, Some("a"), Some("b"), Some("c")}
Clock == 0..MaxClock

----------------------------------------------------------------------------
(* The attempt log: DB *)

\* DB.__init__: the connection is opened (the table is created when absent)
DB_init(rows) == [open |-> TRUE, attempts |-> rows]

\* save_attempt with score and total bound to each other's column
save_attempt_swapped(d, category, difficulty, score, tot, dur, t) ==
    IF ~d.open THEN [db |-> d, raised |-> "ProgrammingError"]
    ELSE [db |-> [d EXCEPT !.attempts =
                     Append(@, [id |-> Len(@) + 1,
                                timestamp |-> t \div TicksPerSecond,
                                category |-> category, difficulty |-> difficulty,
                                score |-> tot, total |-> score,
                                duration_seconds |-> dur])],
          raised |-> ""]

\* save_attempt at wall-clock time t: one row appended under the next id;
\* sqlite3 raises ProgrammingError on a closed connection
save_attempt(d, category, difficulty, score, tot, dur, t) ==
    IF ~d.open THEN [db |-> d, raised |-> "ProgrammingError"]
    ELSE [db |-> [d EXCEPT !.attempts =
                     Append(@, [id |-> Len(@) + 1,
                                timestamp |-> t \div TicksPerSecond,
                                category |-> category, difficulty |-> difficulty,
                                score |-> score, total |-> tot,
                                duration_seconds |-> dur])],
          raised |-> ""]

\* the stored rows, ORDER BY id DESC: the row of the greatest id first
RECURSIVE OrderByIdDesc(_)
OrderByIdDesc(rows) ==
    IF rows = {} THEN <<>>
    ELSE LET top == CHOOSE r \in rows : \A o \in rows : o.id <= r.id
         IN <<top>> \o OrderByIdDesc(rows \ {top})

\* the stored rows, ORDER BY id ASC
RECURSIVE OrderByIdAsc(_)
OrderByIdAsc(rows) ==
    IF rows = {} THEN <<>>
    ELSE LET low == CHOOSE r \in rows : \A o \in rows : r.id <= o.id
         IN <<low>> \o OrderByIdAsc(rows \ {low})

\* LIMIT n of SQLite: the first n rows, every row when n is negative
SqlLimit(rows, n) == IF n < 0 THEN rows ELSE SubSeq(rows, 1, Min(n, Len(rows)))

\* the columns a SELECT of recent_attempts returns for a stored row
SelectColumns(r) ==
    <<r.timestamp, r.category, r.difficulty, r.score, r.total, r.duration_seconds>>

\* recent_attempts with the rows in insertion order
recent_attempts_oldest_first(d, limit) ==
    IF ~d.open THEN [rows |-> <<>>, raised |-> "ProgrammingError"]
    ELSE LET sel == SqlLimit(OrderByIdAsc(Range(d.attempts)), limit)
         IN [rows |-> [i \in 1..Len(sel) |-> SelectColumns(sel[i])], raised |-> ""]

\* recent_attempts(limit): SELECT ... ORDER BY id DESC LIMIT ?, fetchall()
recent_attempts(d, limit) ==
    IF ~d.open THEN [rows |-> <<>>, raised |-> "ProgrammingError"]
    ELSE LET sel == SqlLimit(OrderByIdDesc(Range(d.attempts)), limit)
         IN [rows |-> [i \in 1..Len(sel) |-> SelectColumns(sel[i])], raised |-> ""]

\* DB.close
DB_close(d) == [d EXCEPT !.open = FALSE]

----------------------------------------------------------------------------
(* The world a handler runs in: the objects it reads and writes. A handler is
   an operator from worlds to worlds; exc is the exception it ends with. *)

World ==
    [engine |-> engine, app |-> app, after |-> after_queue, db |-> db,
     last |-> last, clean |-> clean, submits |-> submits, exc |-> "",
     dbcall |-> dbcall, shown |-> shown]

Becomes(w) ==
    /\ engine' = w.engine
    /\ app' = w.app
    /\ after_queue' = w.after
    /\ db' = w.db
    /\ last' = w.last
    /\ clean' = w.clean
    /\ submits' = w.submits
    /\ exc' = w.exc
    /\ dbcall' = w.dbcall
    /\ shown' = w.shown

\* the lifecycle state of the session an engine holds
StateClass(e) ==
    IF total(e) = 0 THEN "Idle"
    ELSE IF e.index < total(e) THEN "InProgress" ELSE "Finished"

\* the record of an engine call: before is the lifecycle state it was made in
NoCall ==
    [op |-> "none", before |-> "Idle", category |-> "", difficulty |-> "", count |-> 0,
     selected |-> None, raised |-> "", ret |-> FALSE, value |-> 0, question |-> None]
Call(w, op) == [NoCall EXCEPT !.op = op, !.before = StateClass(w.engine)]

\* engine.start(c, d, n), recorded
CallStart(w, c, d, n, perm) ==
    LET r == start(w.engine, c, d, n, perm, now)
    IN [w EXCEPT !.engine = r.e,
                 !.last = [Call(w, "start") EXCEPT !.category = c, !.difficulty = d,
                                                   !.count = n, !.raised = r.raised],
                 !.clean = (r.raised = ""),
                 !.submits = 0]

\* engine.submit(selected), recorded
CallSubmit(w, selected) ==
    LET r == submit(w.engine, selected)
    IN [w EXCEPT !.engine = r.e,
                 !.last = [Call(w, "submit") EXCEPT !.selected = selected,
                                                    !.raised = r.raised, !.ret = r.ret],
                 !.submits = IF w.clean THEN w.submits + 1 ELSE 0]

\* engine.reset_state(), recorded
CallReset(w) ==
    [w EXCEPT !.engine = reset_state(w.engine),
              !.last = Call(w, "reset_state"),
              !.clean = FALSE,
              !.submits = 0]

\* engine.current(), recorded: the question returned, or the IndexError
CallCurrent(w) ==
    [w EXCEPT !.last =
        IF currentRaises(w.engine) THEN [Call(w, "current") EXCEPT !.raised = "IndexError"]
        ELSE [Call(w, "current") EXCEPT !.question = Some(current(w.engine))]]

\* engine.is_finished(), recorded
CallIsFinished(w) ==
    [w EXCEPT !.last = [Call(w, "is_finished") EXCEPT !.ret = is_finished(w.engine)]]

\* engine.total, recorded
CallTotal(w) ==
    [w EXCEPT !.last = [Call(w, "total") EXCEPT !.value = total(w.engine)]]

\* engine.duration_seconds(), recorded
CallDuration(w) ==
    [w EXCEPT !.last = [Call(w, "duration_seconds") EXCEPT
                           !.value = duration_seconds(w.engine, now)]]

\* the record of a DB call: prev is the operation called before it, saved the
\* arguments of the last save_attempt that returned
NoDBCall ==
    [op |-> "none", prev |-> "none", saved |-> None, limit |-> 0, rows |-> <<>>,
     raised |-> ""]

\* db.save_attempt(category, difficulty, score, tot, dur), recorded
CallSave(w, category, difficulty, score, tot, dur) ==
    LET r == save_attempt(w.db, category, difficulty, score, tot, dur, now)
        args == [category |-> category, difficulty |-> difficulty, score |-> score,
                 total |-> tot, duration_seconds |-> dur]
    IN [w EXCEPT !.db = r.db,
                 !.dbcall = [NoDBCall EXCEPT
                                !.op = "save_attempt", !.prev = w.dbcall.op,
                                !.saved = IF r.raised = "" THEN Some(args)
                                          ELSE w.dbcall.saved,
                                !.raised = r.raised]]

\* db.recent_attempts(limit), recorded
CallRecent(w, limit) ==
    LET r == recent_attempts(w.db, limit)
    IN [w EXCEPT !.dbcall = [NoDBCall EXCEPT
                                !.op = "recent_attempts", !.prev = w.dbcall.op,
                                !.saved = w.dbcall.saved, !.limit = limit,
                                !.rows = r.rows, !.raised = r.raised]]

\* the orders rng.shuffle can leave the indices of the pool of (c, d) in
ShufflesFor(e, c, d) == Shuffles(Len(FilterPool(e.questions_all, c, d, 1)))

----------------------------------------------------------------------------
(* FlashcardApp *)

DEFAULT_TIME_LIMIT == 20
MinTimeLimit == 5

\* the ids root.after hands out; an id is never handed out while it is pending
\* or held in timer_id
AfterIds == {"after#1", "after#2", "after#3"}

\* the limit open_history asks recent_attempts for
HistoryLimit == 20

\* the history of the question on display, before any question is displayed:
\*   asked   - the questions display_question has displayed in this session
\*   ticks   - the tick callbacks run since the question on display was displayed
\*   clicked - an option was clicked in this session
\*   armed   - for each timer scheduled and neither fired nor cancelled, the
\*             question it counts down: the rows logged and the index then
NoShown == [asked |-> 0, ticks |-> 0, clicked |-> FALSE, armed |-> {}]

\* the application object while __init__ runs: no attribute is assigned yet
NoApp ==
    [screen |-> "boot", time_limit |-> 0, time_left |-> 0, timer_id |-> None,
     buttons |-> "none"]

\* the question on display: the rows logged so far tell the session, the index
\* the question of the session
OnDisplay(w) == [rows |-> Len(w.db.attempts), index |-> w.engine.index]

\* the timer id, scheduled for the question on display
Armed(w, id) == [id |-> id, for |-> OnDisplay(w)]

\* root.after_cancel(id), or Tk taking the fired timer id off its queue
Unqueue(w, ids) ==
    [w EXCEPT !.after = @ \ ids, !.shown.armed = {a \in @ : a.id \notin ids}]

\* root.after(1000, self.tick) with the id it returns dropped
ScheduleTick_drops_id(w) ==
    IF AfterIds \subseteq w.after THEN w
    ELSE LET id == CHOOSE i \in AfterIds : i \notin w.after
         IN [w EXCEPT !.after = @ \cup {id}, !.shown.armed = @ \cup {Armed(w, id)}]

\* root.after(1000, self.tick): a new pending callback, its id stored in timer_id
ScheduleTick(w) ==
    LET id == CHOOSE i \in AfterIds : i \notin w.after /\ Some(i) # w.app.timer_id
    IN [w EXCEPT !.after = @ \cup {id}, !.app.timer_id = Some(id),
                 !.shown.armed = @ \cup {Armed(w, id)}]

\* cancel_timer forgetting the handle without cancelling the callback
cancel_timer_forgets(w) ==
    IF w.exc # "" THEN w
    ELSE IF w.app.screen = "boot" THEN [w EXCEPT !.exc = "AttributeError"]
    ELSE [w EXCEPT !.app.timer_id = None]

\* cancel_timer: self.timer_id is read first, and is no attribute before
\* __init__ has assigned it
cancel_timer(w) ==
    IF w.exc # "" THEN w
    ELSE IF w.app.screen = "boot" THEN [w EXCEPT !.exc = "AttributeError"]
    ELSE IF w.app.timer_id # None
         THEN [Unqueue(w, Range(w.app.timer_id)) EXCEPT !.app.timer_id = None]
         ELSE w

\* destroy_quiz: the timer cancelled, the quiz frame destroyed; no question
\* is on display any more
destroy_quiz(w) ==
    LET w1 == cancel_timer(w)
    IN IF w1.exc # "" THEN w1
       ELSE [w1 EXCEPT !.app.buttons = "none",
                       !.shown = [NoShown EXCEPT !.armed = w1.shown.armed]]

\* on_close: destroy_quiz, db.close, root.quit
on_close(w) ==
    LET w1 == destroy_quiz(w)
    IN IF w1.exc # "" THEN w1
       ELSE [w1 EXCEPT !.db = DB_close(@), !.app.screen = "closed"]

\* create_home
create_home(w) ==
    LET w1 == destroy_quiz(w)
    IN IF w1.exc # "" THEN w1
       ELSE [w1 EXCEPT !.app.screen = "home", !.app.buttons = "none"]

\* finish saving the attempt a second time
finish_saves_twice(w) ==
    LET w1 == cancel_timer(w)
        e == w1.engine
        once == CallSave(w1, e.category, e.difficulty, e.score, total(e),
                         duration_seconds(e, now))
        w2 == CallSave(once, e.category, e.difficulty, e.score, total(e),
                       duration_seconds(e, now))
    IN IF w1.exc # "" THEN w1
       ELSE IF w2.dbcall.raised # "" THEN [w2 EXCEPT !.exc = w2.dbcall.raised]
       ELSE [w2 EXCEPT !.app.screen = "result", !.app.buttons = "none",
                       !.shown.ticks = 0]

\* finish: the timer is cancelled, the attempt saved, the result shown
finish(w) ==
    LET w1 == cancel_timer(w)
        e == w1.engine
        w2 == CallSave(w1, e.category, e.difficulty, e.score, total(e),
                       duration_seconds(e, now))
    IN IF w1.exc # "" THEN w1
       ELSE IF w2.dbcall.raised # "" THEN [w2 EXCEPT !.exc = w2.dbcall.raised]
       ELSE [w2 EXCEPT !.app.screen = "result", !.app.buttons = "none",
                       !.shown.ticks = 0]

\* display_question: finish when the session is finished, else show the
\* current question, enable its buttons and start its countdown
display_question(w) ==
    IF w.exc # "" THEN w
    ELSE IF is_finished(w.engine) THEN finish(w)
    ELSE LET w1 == cancel_timer(w)
         IN IF w1.exc # "" THEN w1
            ELSE IF currentRaises(w1.engine) THEN [w1 EXCEPT !.exc = "IndexError"]
            ELSE ScheduleTick([w1 EXCEPT !.app.buttons = "normal",
                                         !.app.time_left = w1.app.time_limit,
                                         !.shown.asked = @ + 1,
                                         !.shown.ticks = 0])

\* show_quiz: the quiz frame and its buttons are built, the question displayed
show_quiz(w) ==
    display_question([w EXCEPT !.app.screen = "quiz", !.app.buttons = "normal",
                               !.shown.asked = 0, !.shown.clicked = FALSE])

\* on_start with the values of the four selectors
on_start(w, c, d, n, tv, perm) ==
    LET w1 == CallStart(w, c, d, n, perm)
    IN IF w1.last.raised = "ValueError" THEN w1
       ELSE show_quiz([w1 EXCEPT !.app.time_limit = Max(MinTimeLimit, tv)])

\* on_answer(choice): choice is None on a timeout
on_answer(w, choice) ==
    LET w1 == cancel_timer([w EXCEPT !.app.buttons = "disabled",
                                     !.shown.clicked = @ \/ choice # None])
        w2 == CallSubmit(w1, choice)
    IN IF w1.exc # "" THEN w1
       ELSE IF w2.last.raised # "" THEN [w2 EXCEPT !.exc = w2.last.raised]
       ELSE display_question(w2)

\* tick letting the countdown show 0 for a second before it times out
tick_one_late(w) ==
    LET w1 == [w EXCEPT !.app.time_left = @ - 1, !.shown.ticks = @ + 1]
    IN IF w1.app.time_left < 0 THEN on_answer(w1, None)
       ELSE ScheduleTick(w1)

\* tick without rescheduling itself
tick_once(w) ==
    LET w1 == [w EXCEPT !.app.time_left = @ - 1, !.shown.ticks = @ + 1]
    IN IF w1.app.time_left <= 0 THEN on_answer(w1, None)
       ELSE w1

\* tick, the callback of a timer that has fired
tick(w) ==
    LET w1 == [w EXCEPT !.app.time_left = @ - 1, !.shown.ticks = @ + 1]
    IN IF w1.app.time_left <= 0 THEN on_answer(w1, None)
       ELSE ScheduleTick(w1)

\* _restart: Play Again, with the finished session's filters and total
_restart(w, perm) ==
    LET e == w.engine
        w1 == CallStart([w EXCEPT !.app.screen = "blank"],
                        e.category, e.difficulty, total(e), perm)
    IN IF w1.last.raised = "ValueError" THEN w1
       ELSE show_quiz(w1)

\* _home
_home(w) == create_home(CallReset(w))

\* open_history: the rows of recent_attempts(limit=20) in a window of their own
open_history(w) ==
    LET w1 == CallRecent(w, HistoryLimit)
    IN IF w1.dbcall.raised # "" THEN [w1 EXCEPT !.exc = w1.dbcall.raised] ELSE w1

\* FlashcardApp.__init__ on the question source src
FlashcardApp(w, src) ==
    LET opened == [w EXCEPT !.db = DB_init(w.db.attempts)]
        l == load_questions(src)
    IN IF l.status # "ok" THEN on_close(opened)
       ELSE create_home([opened EXCEPT
                !.engine = QuizEngine(l.out),
                !.app = [screen |-> "constructed", time_limit |-> DEFAULT_TIME_LIMIT,
                         time_left |-> DEFAULT_TIME_LIMIT, timer_id |-> None,
                         buttons |-> "none"]])

----------------------------------------------------------------------------
(* The engine driven by any caller *)

NoDB == [open |-> FALSE, attempts |-> <<>>]

Init ==
    /\ raw \in Banks
    /\ loaded = load_questions(raw)
    /\ engine = QuizEngine(loaded.out)
    /\ now \in Clock
    /\ last = NoCall
    /\ clean = FALSE
    /\ submits = 0
    /\ app = NoApp
    /\ after_queue = {}
    /\ db = NoDB
    /\ exc = ""
    /\ dbcall = NoDBCall
    /\ shown = NoShown

Start(c, d, n) ==
    /\ \E perm \in ShufflesFor(engine, c, d) : Becomes(CallStart(World, c, d, n, perm))
    /\ UNCHANGED <<raw, loaded, now>>

Submit(selected) ==
    /\ clean => submits < MaxSubmits
    /\ Becomes(CallSubmit(World, selected))
    /\ UNCHANGED <<raw, loaded, now>>

ResetState ==
    /\ Becomes(CallReset(World))
    /\ UNCHANGED <<raw, loaded, now>>

\* the wall clock moves; it may be set back
ClockMoves ==
    /\ now' \in Clock \ {now}
    /\ UNCHANGED <<raw, loaded, engine, last, clean, submits, app, after_queue, db, exc,
                 dbcall, shown>>

Next ==
    \/ \E c \in CategoryArgs, d \in DifficultyArgs, n \in CountArgs : Start(c, d, n)
    \/ \E selected \in Selections : Submit(selected)
    \/ ResetState
    \/ ClockMoves

Spec == Init /\ [][Next]_vars

----------------------------------------------------------------------------
(* The engine with its read-only methods, over a clock long enough for a
   duration of one second *)

ReadCategoryArgs == {"Any", "History"}
ReadDifficultyArgs == {"Any", "Hard"}
ReadCountArgs == 1..MaxItems
LongClock == 0..TicksPerSecond

ReadInit ==
    /\ raw = Bank1
    /\ loaded = load_questions(raw)
    /\ engine = QuizEngine(loaded.out)
    /\ now \in LongClock
    /\ last = NoCall
    /\ clean = FALSE
    /\ submits = 0
    /\ app = NoApp
    /\ after_queue = {}
    /\ db = NoDB
    /\ exc = ""
    /\ dbcall = NoDBCall
    /\ shown = NoShown

Current ==
    /\ Becomes(CallCurrent(World))
    /\ UNCHANGED <<raw, loaded, now>>

IsFinished ==
    /\ Becomes(CallIsFinished(World))
    /\ UNCHANGED <<raw, loaded, now>>

Total ==
    /\ Becomes(CallTotal(World))
    /\ UNCHANGED <<raw, loaded, now>>

DurationSeconds ==
    /\ Becomes(CallDuration(World))
    /\ UNCHANGED <<raw, loaded, now>>

\* the wall clock moves; it may be set back
LongClockMoves ==
    /\ now' \in LongClock \ {now}
    /\ UNCHANGED <<raw, loaded, engine, last, clean, submits, app, after_queue, db, exc,
                 dbcall, shown>>

ReadNext ==
    \/ \E c \in ReadCategoryArgs, d \in ReadDifficultyArgs, n \in ReadCountArgs :
          Start(c, d, n)
    \/ \E selected \in Selections : Submit(selected)
    \/ ResetState
    \/ Current
    \/ IsFinished
    \/ Total
    \/ DurationSeconds
    \/ LongClockMoves

ReadSpec == ReadInit /\ [][ReadNext]_vars

----------------------------------------------------------------------------
(* Loading the question store *)

Pending == [status |-> "pending", out |-> <<>>]

LoadInit ==
    /\ raw \in RawSources
    /\ loaded = Pending
    /\ engine = QuizEngine(<<>>)
    /\ now = 0
    /\ last = NoCall
    /\ clean = FALSE
    /\ submits = 0
    /\ app = NoApp
    /\ after_queue = {}
    /\ db = NoDB
    /\ exc = ""
    /\ dbcall = NoDBCall
    /\ shown = NoShown

\* QuizEngine(load_questions()): the engine exists once the load succeeded
Load ==
    /\ loaded = Pending
    /\ loaded' = load_questions(raw)
    /\ engine' = IF loaded'.status = "ok" THEN QuizEngine(loaded'.out) ELSE engine
    /\ UNCHANGED <<raw, now, last, clean, submits, app, after_queue, db, exc, dbcall, shown>>

LoadNext == Load

LoadSpec == LoadInit /\ [][LoadNext]_vars

----------------------------------------------------------------------------
(* The attempt log driven by any caller *)

\* the arguments the log is called with
SaveCategories == {"Any", "Science"}
SaveScores == 0..1
SaveTotal == 2
SaveDurations == 0..1
LimitArgs == (0 - 1)..(MaxAttempts + 1)

DBInit ==
    /\ raw = NoFile
    /\ loaded = Pending
    /\ engine = QuizEngine(<<>>)
    /\ now \in Clock
    /\ last = NoCall
    /\ clean = FALSE
    /\ submits = 0
    /\ app = NoApp
    /\ after_queue = {}
    /\ db = DB_init(<<>>)
    /\ exc = ""
    /\ dbcall = NoDBCall
    /\ shown = NoShown

SaveAttempt(category, score, dur) ==
    /\ Len(db.attempts) < MaxAttempts
    /\ Becomes(CallSave(World, category, "Any", score, SaveTotal, dur))
    /\ UNCHANGED <<raw, loaded, now>>

RecentAttempts(limit) ==
    /\ Becomes(CallRecent(World, limit))
    /\ UNCHANGED <<raw, loaded, now>>

Close ==
    /\ db.open
    /\ Becomes([World EXCEPT !.db = DB_close(@)])
    /\ UNCHANGED <<raw, loaded, now>>

DBNext ==
    \/ \E c \in SaveCategories, s \in SaveScores, dur \in SaveDurations :
          SaveAttempt(c, s, dur)
    \/ \E limit \in LimitArgs : RecentAttempts(limit)
    \/ Close
    \/ ClockMoves

DBSpec == DBInit /\ [][DBNext]_vars

----------------------------------------------------------------------------
(* The application: the Tk event loop delivering events to FlashcardApp *)

AppBank ==
    File(<<[category |-> "Science",
            items |-> <<[question |-> "s1", options |-> Options, answer |-> "a", difficulty |-> "Easy"],
                        [question |-> "s2", options |-> Options, answer |-> "b"]>>]>>)
AppSources == {AppBank, NoFile}

\* what the user sets the selectors to
CategoryChoices == {"Any"}
DifficultyChoices == {"Any", "Hard"}
CountChoices == 1..(Len(load_questions(AppBank).out) + CountSlack)
TimeChoices == {MinTimeLimit - 1, MinTimeLimit + 1}

AppInit ==
    /\ raw \in AppSources
    /\ loaded = Pending
    /\ engine = QuizEngine(<<>>)
    /\ now \in Clock
    /\ last = NoCall
    /\ clean = FALSE
    /\ submits = 0
    /\ app = NoApp
    /\ after_queue = {}
    /\ db = NoDB
    /\ exc = ""
    /\ dbcall = NoDBCall
    /\ shown = NoShown

\* app = FlashcardApp(root); an exception leaving __init__ ends the program
Construct ==
    /\ app.screen = "boot"
    /\ loaded' = load_questions(raw)
    /\ LET w == FlashcardApp(World, raw)
       IN Becomes(IF w.exc # "" THEN [w EXCEPT !.app.screen = "crashed"] ELSE w)
    /\ UNCHANGED <<raw, now>>

\* the Start Quiz button
ClickStart ==
    /\ app.screen = "home"
    /\ Len(db.attempts) < MaxAttempts
    /\ \E c \in CategoryChoices, d \in DifficultyChoices, n \in CountChoices,
          tv \in TimeChoices :
          \E perm \in ShufflesFor(engine, c, d) :
              Becomes(on_start(World, c, d, n, tv, perm))
    /\ UNCHANGED <<raw, loaded, now>>

\* an enabled option button of the displayed question
ClickOption ==
    /\ app.screen = "quiz"
    /\ app.buttons = "normal"
    /\ ~currentRaises(engine)
    /\ \E opt \in Range(current(engine).options) : Becomes(on_answer(World, Some(opt)))
    /\ UNCHANGED <<raw, loaded, now>>

\* a pending timer fires: Tk takes it off its queue and calls tick
TimerFires ==
    /\ app.screen \notin {"closed", "crashed"}
    /\ \E id \in after_queue : Becomes(tick(Unqueue(World, {id})))
    /\ UNCHANGED <<raw, loaded, now>>

\* the Play Again button of the result screen
ClickPlayAgain ==
    /\ app.screen = "result"
    /\ Len(db.attempts) < MaxAttempts
    /\ \E perm \in ShufflesFor(engine, engine.category, engine.difficulty) :
          Becomes(_restart(World, perm))
    /\ UNCHANGED <<raw, loaded, now>>

\* the Home button of the result screen
ClickHome ==
    /\ app.screen = "result"
    /\ Becomes(_home(World))
    /\ UNCHANGED <<raw, loaded, now>>

\* the window is closed, or the Exit button of the result screen is pressed
CloseWindow ==
    /\ app.screen \in {"home", "quiz", "result", "blank"}
    /\ Becomes(on_close(World))
    /\ UNCHANGED <<raw, loaded, now>>

ClickHistory ==
    /\ app.screen = "home"
    /\ Becomes(open_history(World))
    /\ UNCHANGED <<raw, loaded, now>>

AppClockMoves ==
    /\ app.screen \notin {"closed", "crashed"}
    /\ ClockMoves

AppNext ==
    \/ Construct
    \/ ClickHistory
    \/ ClickStart
    \/ ClickOption
    \/ TimerFires
    \/ ClickPlayAgain
    \/ ClickHome
    \/ CloseWindow
    \/ AppClockMoves

AppSpec == AppInit /\ [][AppNext]_vars

\* a timer callback is pending in a running event loop: TimerFires is enabled,
\* and each of its steps changes time_left or index
TimerPending == app.screen \notin {"closed", "crashed"} /\ after_queue # {}

\* the Tk event loop calls every scheduled callback once its delay is over:
\* weak fairness of TimerFires, WF_vars(TimerFires), written out with
\* ENABLED <<TimerFires>>_vars stated as TimerPending
AppFairSpec == AppSpec /\ ([]<>(~TimerPending) \/ []<><<TimerFires>>_vars)

----------------------------------------------------------------------------
(* Properties of the engine (Spec) and of the loader (LoadSpec) *)

\* what the filters select, stated on the question store itself
Matches(q, c, d) ==
    (c = "Any" \/ q.category = c) /\ (d = "Any" \/ q.difficulty = d)
MatchCount(qs, c, d) == Cardinality({i \in 1..Len(qs) : Matches(qs[i], c, d)})

\* a step of Spec that is a call of the named engine operation
CallStep(op) == last'.op = op /\ now' = now
StartedOK == last.op = "start" /\ last.raised = ""

\* C1: in every reachable state 0 <= score <= index <= total, whatever calls
\* were made, the failing ones included.
C1_ScoreIndexTotal ==
    /\ 0 <= engine.score
    /\ engine.score <= engine.index
    /\ engine.index <= total(engine)

\* a submit beyond the last question has failed, in a session with points scored
C1_Witness ==
    /\ last.op = "submit" /\ last.raised = "IndexError"
    /\ last.before = "Finished"
    /\ engine.score > 0 /\ engine.index = total(engine)

\* C2: after a successful start, total is the requested count clamped to
\* [1, poolSize], poolSize being the number of questions matching both filters.
C2_TotalIsClampedCount ==
    StartedOK =>
        LET poolSize == MatchCount(engine.questions_all, last.category, last.difficulty)
        IN /\ poolSize >= 1
           /\ total(engine) = Min(Max(last.count, 1), poolSize)

\* a start asked for more questions than the pool of at least two holds
C2_Witness ==
    /\ StartedOK
    /\ last.count > Len(engine.pool)
    /\ Len(engine.pool) >= 2
    /\ total(engine) = Len(engine.pool)

\* C3: in every reachable state order has no repeated index, every element of
\* order is a valid index into the current pool, and current() returns a
\* question of the pool whenever the session is not finished.
C3_OrderIndexesPool ==
    /\ NoDuplicates(engine.order)
    /\ \A i \in 1..Len(engine.order) :
          0 <= engine.order[i] /\ engine.order[i] < Len(engine.pool)
    /\ ~is_finished(engine) =>
          ~currentRaises(engine) /\ current(engine) \in Range(engine.pool)

\* C4: a submit made while the session is in progress returns true and adds 1
\* to score iff the selection is the current question's answer, and otherwise
\* (None included) returns false and leaves score as it was.
C4_SubmitScoresTheAnswer ==
    [][(CallStep("submit") /\ last'.before = "InProgress") =>
          /\ last'.raised = ""
          /\ ~currentRaises(engine)
          /\ last'.ret = (last'.selected = Some(current(engine).answer))
          /\ last'.selected = None => ~last'.ret
          /\ engine'.score = engine.score + (IF last'.ret THEN 1 ELSE 0)]_vars

\* C5: after a successful start followed by submit calls only, is_finished() is
\* false after fewer than total calls and true after total calls; and finished
\* means index = total.
C5_FinishedAfterTotalSubmits ==
    /\ clean => (is_finished(engine) <=> submits >= total(engine))
    /\ is_finished(engine) <=> engine.index = total(engine)

\* a session of at least two questions after exactly total submit calls
C5_Witness ==
    /\ clean /\ last.op = "submit"
    /\ total(engine) >= 2
    /\ submits = total(engine)
    /\ is_finished(engine)

\* C6: a start whose filters match no question fails and leaves the engine
\* state as it was before the call.
C6_FailedStartKeepsState ==
    [][(CallStep("start") /\ last'.raised = "ValueError") => engine' = engine]_vars

\* C7: a successful start from any prior state replaces the session: index and
\* score are 0, category and difficulty are the arguments, the start time is
\* the time of the call, and pool and order come from the new filters alone.
C7_StartReplacesSession ==
    [][(CallStep("start") /\ last'.raised = "") =>
          /\ engine'.index = 0 /\ engine'.score = 0
          /\ engine'.category = last'.category
          /\ engine'.difficulty = last'.difficulty
          /\ engine'.started_at = now
          /\ engine'.questions_all = engine.questions_all
          /\ Len(engine'.pool) =
                MatchCount(engine.questions_all, last'.category, last'.difficulty)
          /\ \A q \in Range(engine'.pool) : Matches(q, last'.category, last'.difficulty)
          /\ NoDuplicates(engine'.order)
          /\ Range(engine'.order) \subseteq 0..(Len(engine'.pool) - 1)
          /\ clean' /\ submits' = 0]_vars

\* a start has replaced a session that was in progress
C7_Witness ==
    /\ StartedOK
    /\ last.before = "InProgress"
    /\ engine.index = 0 /\ engine.score = 0

\* C8: reset_state returns the engine to Idle from any state and leaves the
\* question store as it was loaded.
C8_ResetIsIdleAndKeepsStore ==
    [][CallStep("reset_state") =>
          /\ engine'.pool = <<>> /\ engine'.order = <<>>
          /\ engine'.index = 0 /\ engine'.score = 0
          /\ engine'.category = "Any" /\ engine'.difficulty = "Any"
          /\ engine'.questions_all = engine.questions_all
          /\ engine'.questions_all = loaded.out]_vars

\* a session in progress has been reset
C8_Witness ==
    /\ last.op = "reset_state"
    /\ last.before = "InProgress"
    /\ StateClass(engine) = "Idle"
    /\ engine.questions_all # <<>>

\* C9: a load that succeeds holds only questions whose answer is one of their
\* options: a source with another answer is refused.
C9_LoadedAnswersAreOptions ==
    loaded.status = "ok" =>
        \A i \in 1..Len(engine.questions_all) :
            engine.questions_all[i].answer \in Range(engine.questions_all[i].options)

----------------------------------------------------------------------------
(* Properties of the application (AppSpec) *)

\* C10: the log gains exactly one row, that of the session, in the step in
\* which the session becomes finished, and is left as it was by every other
\* step: answers, timer ticks, Play Again, Home, closing.
C10_OneRecordPerFinishedSession ==
    [][IF StateClass(engine) = "InProgress" /\ StateClass(engine') = "Finished"
       THEN /\ Len(db'.attempts) = Len(db.attempts) + 1
            /\ SubSeq(db'.attempts, 1, Len(db.attempts)) = db.attempts
            /\ LET row == db'.attempts[Len(db'.attempts)]
               IN /\ row.score = engine'.score
                  /\ row.total = total(engine')
                  /\ row.category = engine'.category
                  /\ row.difficulty = engine'.difficulty
       ELSE db'.attempts = db.attempts]_vars

\* a second session, played again, has been finished by a timeout and saved
C10_Witness ==
    /\ app.screen = "result"
    /\ StateClass(engine) = "Finished"
    /\ total(engine) >= 2
    /\ last.op = "submit" /\ last.selected = None
    /\ Len(db.attempts) = 2
    /\ db.attempts[2].total = total(engine)
    /\ db.attempts[2].score = engine.score

----------------------------------------------------------------------------
(* The attempt log *)

\* the rows a log of stored rows owes recent(limit): the Min(limit, n) rows
\* appended last, the last one first
NewestFirst(stored, limit) ==
    [i \in 1..Min(limit, Len(stored)) |-> SelectColumns(stored[Len(stored) + 1 - i])]

\* C11: a recent_attempts(limit) call with limit >= 0 returns the
\* min(limit, n) rows appended last, the newest first (none when nothing was
\* appended), and no step removes or alters a row that was appended.
C11_RecentIsNewestFirst ==
    [][/\ Len(db'.attempts) >= Len(db.attempts)
       /\ SubSeq(db'.attempts, 1, Len(db.attempts)) = db.attempts
       /\ (dbcall' # dbcall /\ dbcall'.op = "recent_attempts"
             /\ dbcall'.raised = "" /\ dbcall'.limit >= 0)
            => dbcall'.rows = NewestFirst(db.attempts, dbcall'.limit)]_vars

\* a recent(1) call has returned the newer of two rows that differ
C11_Witness ==
    /\ dbcall.op = "recent_attempts" /\ dbcall.raised = "" /\ dbcall.limit = 1
    /\ Len(db.attempts) = 2
    /\ SelectColumns(db.attempts[1]) # SelectColumns(db.attempts[2])
    /\ dbcall.rows = <<SelectColumns(db.attempts[2])>>

\* the columns recent_attempts owes the arguments of a save_attempt, the
\* timestamp left out
SavedColumns(a) == <<a.category, a.difficulty, a.score, a.total, a.duration_seconds>>

\* C12: recent_attempts(1) called right after a save_attempt returns one row
\* whose category, difficulty, score, total and duration_seconds are the
\* arguments of that save_attempt, however many rows were stored before.
C12_RoundTrip ==
    (/\ dbcall.op = "recent_attempts" /\ dbcall.prev = "save_attempt"
     /\ dbcall.raised = "" /\ dbcall.limit = 1 /\ dbcall.saved # None)
    => /\ Len(dbcall.rows) = 1
       /\ SubSeq(dbcall.rows[1], 2, 6) = SavedColumns(dbcall.saved[1])

\* the round trip was made on a log that already held a different row
C12_Witness ==
    /\ dbcall.op = "recent_attempts" /\ dbcall.prev = "save_attempt"
    /\ dbcall.raised = "" /\ dbcall.limit = 1
    /\ Len(db.attempts) = 2
    /\ SelectColumns(db.attempts[1]) # SelectColumns(db.attempts[2])
    /\ Len(dbcall.rows) = 1

----------------------------------------------------------------------------
(* The engine's read-only methods and its frame *)

\* C13: within one session, of two duration_seconds() calls the later one
\* returns no less than the earlier one, and neither returns a negative
\* number, however the wall clock moves between them.
C13_DurationMonotone ==
    [][(clean /\ now' = now
         /\ last.op = "duration_seconds" /\ last'.op = "duration_seconds")
        => (last'.value >= last.value /\ last'.value >= 0)]_vars

\* the methods that only read the engine
ReadOps == {"current", "is_finished", "total", "duration_seconds"}

\* C17: a submit() that returns advances index by exactly 1 whatever was
\* selected and leaves pool, order, category, difficulty and started_at as
\* they were; current(), is_finished(), total and duration_seconds() leave
\* the engine as it was; index and score change in no step other than a
\* start, submit or reset_state call.
C17_SubmitFrame ==
    [][/\ (CallStep("submit") /\ last'.raised = "")
            => /\ engine'.index = engine.index + 1
               /\ engine'.pool = engine.pool
               /\ engine'.order = engine.order
               /\ engine'.category = engine.category
               /\ engine'.difficulty = engine.difficulty
               /\ engine'.started_at = engine.started_at
       /\ (last'.op \in ReadOps /\ now' = now) => engine' = engine
       /\ (engine'.index # engine.index \/ engine'.score # engine.score)
            => (now' = now /\ last'.op \in {"start", "submit", "reset_state"})]_vars

\* a submit(None) has returned and advanced a session to its second question
\* answered, no answer having scored
C17_Witness ==
    /\ clean /\ engine.index = 2 /\ engine.score = 0
    /\ last.op = "submit" /\ last.raised = "" /\ last.selected = None

\* C19: submit() and current() called when no question is current (Idle, or
\* Finished with index = total) raise and leave the whole engine as it was,
\* so index never passes total; an Idle engine reports is_finished() true.
C19_NoCurrentRaises ==
    [][/\ (now' = now /\ last'.op \in {"submit", "current"}
            /\ StateClass(engine) \in {"Idle", "Finished"})
            => (last'.raised = "IndexError" /\ engine' = engine)
       /\ (CallStep("is_finished") /\ StateClass(engine) = "Idle") => last'.ret
       /\ engine.index <= total(engine)
       /\ engine'.index <= total(engine')]_vars

\* a submit on a finished session of two questions has raised
C19_Witness ==
    /\ last.op = "submit" /\ last.raised = "IndexError" /\ last.before = "Finished"
    /\ engine.index = 2 /\ total(engine) = 2

----------------------------------------------------------------------------
(* The countdown timer of the application *)

\* a question is on display
Displayed == app.screen = "quiz" /\ exc = ""

\* C14: every pending timeout counts down the question on display, so none
\* is left over from a question already submitted; option buttons are
\* enabled only for the question on display; and the session's index is the
\* number of questions displayed and left behind: one submit for each.
C14_OneSubmitPerQuestion ==
    /\ {a.id : a \in shown.armed} = after_queue
    /\ \A a \in shown.armed : Displayed /\ a.for = OnDisplay(World)
    /\ app.buttons = "normal" => (Displayed /\ ~is_finished(engine))
    /\ Displayed => shown.asked = engine.index + 1
    /\ app.screen = "result" => shown.asked = engine.index

\* the user has answered the first question while its timer was pending; the
\* second is on display with one timer, its own
C14_Witness ==
    /\ Displayed /\ engine.index = 1
    /\ last.op = "submit" /\ last.selected # None
    /\ Cardinality(shown.armed) = 1

\* C15: at most one timer callback is pending at any moment, and none is
\* pending on the result screen, on the home screen or once the window is
\* closed.
C15_OneTimerPending ==
    /\ Cardinality(after_queue) <= 1
    /\ app.screen \in {"result", "home", "closed"} => after_queue = {}

\* a click has finished a session of two questions: the timer that was
\* counting the last question down is gone
C15_Witness ==
    /\ app.screen = "result" /\ total(engine) = 2
    /\ last.op = "submit" /\ last.selected # None
    /\ after_queue = {}

\* C16: once the application has shut down through on_close, whether the
\* window was closed or loading the questions failed at startup, the
\* connection of the log is closed.
C16_ClosedOnShutdown ==
    app.screen \in {"closed", "crashed"} => ~db.open

\* C18: while a question is on display 0 <= time_left <= time_limit, with
\* time_left = time_limit less the ticks run since it was displayed; a newly
\* displayed question starts at time_limit; a submit(None) is made in the
\* step of the time_limit-th tick, no sooner, and no question stays on
\* display through time_limit ticks.
C18_TimeoutAfterTimeLimitTicks ==
    [][/\ Displayed'
            => /\ 0 <= app'.time_left /\ app'.time_left <= app'.time_limit
               /\ app'.time_left = app'.time_limit - shown'.ticks
               /\ shown'.ticks < app'.time_limit
       /\ (Displayed' /\ OnDisplay(World)' # OnDisplay(World))
            => (app'.time_left = app'.time_limit /\ shown'.ticks = 0)
       /\ (last'.op = "submit" /\ last'.selected = None
             /\ engine'.index = engine.index + 1)
            => (Displayed /\ shown.ticks = app.time_limit - 1)]_vars

\* the first question has timed out, unanswered, under the smallest time
\* limit and the second is on display with its countdown at time_limit
C18_Witness ==
    /\ Displayed /\ engine.index = 1 /\ ~shown.clicked
    /\ last.op = "submit" /\ last.selected = None
    /\ app.time_limit = MinTimeLimit /\ app.time_left = MinTimeLimit

\* C20: under fair firing of the scheduled ticks a session on display leads
\* to the result screen, which finish() alone shows, unless the window is
\* closed first.
C20_SessionFinishes ==
    (app.screen = "quiz") ~> (app.screen \in {"result", "closed"})

\* a session of two questions has finished without a click: both questions
\* were submitted by their timeouts
C20_Witness ==
    /\ app.screen = "result" /\ ~shown.clicked
    /\ shown.asked = 2 /\ engine.index = 2 /\ engine.score = 0
    /\ last.op = "submit" /\ last.selected = None

====
